---- MODULE Spec2Model ----
(***************************************************************************)
(* A model of confighelper.py: config() merges the command-line options    *)
(* with a configuration file, load() reads the file and expands include    *)
(* expressions %[file], environment expressions $(var) and local variable  *)
(* expressions %(var) on the text of the file.                             *)
(*                                                                         *)
(* Text is a sequence of one-character strings.  A Python value is a       *)
(* record of one field, named by its type.  A parsed yaml mapping          *)
(* keeps the order of its entries (str() of a dict shows it); the          *)
(* dictionaries whose order is never observed (docopt's result, cargs,     *)
(* the merged result, os.environ, the file system) are functions.          *)
(*                                                                         *)
(* Configuration files are yaml; the yaml fragment modelled is a block     *)
(* mapping of one-line entries "key: value", a value being a plain or      *)
(* double-quoted scalar, or a one-level flow sequence or flow mapping.     *)
(***************************************************************************)
EXTENDS Integers, Sequences, FiniteSets, TLC

VARIABLES
    fs,        \* the file system: absolute path -> text of the file
    cwd,       \* os.getcwd()
    environ,   \* os.environ: name -> value
    argv,      \* docopt's result: "--option" -> raw string or None
    pc,        \* position in config() / load()
    cargs,     \* config(): the parsed command-line arguments
    fname,     \* load(): the name of the file being loaded
    confstr,   \* load(): the text being expanded
    parent,    \* load(): the scope, parsed before the local-variable phase
    n,         \* load(): passes of expand_lvars done
    cfile,     \* config(): what load() returned
    result,    \* what config() returned
    error,     \* the exception that ended the call, "" when none
    path,      \* load(): the directory of the file being loaded
    snap       \* history: the text after each phase of load()

vars == <<fs, cwd, environ, argv, pc, cargs, fname, confstr, parent, n,
          cfile, result, error, path, snap>>

(***************************************************************************)
(* Text                                                                    *)
(***************************************************************************)
NL == "\n"

Range(q) == {q[i] : i \in DOMAIN q}

SetMin(S) == CHOOSE x \in S : \A y \in S : x <= y

SetMax(S) == CHOOSE x \in S : \A y \in S : y <= x

\* s[i:j] == old
OccursAt(s, i, old) ==
    /\ i + Len(old) - 1 <= Len(s)
    /\ SubSeq(s, i, i + Len(old) - 1) = old

\* old in s
Contains(s, old) == \E i \in 1..Len(s) : OccursAt(s, i, old)

\* str.replace(old, new): every non-overlapping occurrence, left to right
RECURSIVE ReplaceFrom(_, _, _, _)
ReplaceFrom(s, i, old, new) ==
    LET occ == {j \in i..(Len(s) - Len(old) + 1) : OccursAt(s, j, old)}
    IN  IF occ = {} THEN SubSeq(s, i, Len(s))
        ELSE SubSeq(s, i, SetMin(occ) - 1) \o new
                \o ReplaceFrom(s, SetMin(occ) + Len(old), old, new)

replace(s, old, new) == ReplaceFrom(s, 1, old, new)

(***************************************************************************)
(* The three expressions.  A pattern is its two opening characters, its    *)
(* closing character and whether .* is greedy; "." matches no newline.     *)
(***************************************************************************)
EVAR == [open |-> <<"$", "(">>, close |-> ")", greedy |-> FALSE]

LVAR == [open |-> <<"%", "(">>, close |-> ")", greedy |-> FALSE]

CVAR == [open |-> <<"%", "[">>, close |-> "]", greedy |-> TRUE]

\* the first index >= k holding a newline, Len(s) + 1 when there is none
LineEnd(s, k) == SetMin({j \in k..Len(s) : s[j] = NL} \cup {Len(s) + 1})

\* the places where a match opened at i can close
Closings(s, i, expr) ==
    {j \in (i + 2)..(LineEnd(s, i + 2) - 1) : s[j] = expr.close}

\* re.findall: the matches, left to right, none overlapping another
RECURSIVE FindFrom(_, _, _)
FindFrom(expr, s, i) ==
    LET starts == {k \in i..(Len(s) - 2) :
                      OccursAt(s, k, expr.open) /\ Closings(s, k, expr) # {}}
        k == SetMin(starts)
        j == IF expr.greedy THEN SetMax(Closings(s, k, expr))
                            ELSE SetMin(Closings(s, k, expr))
    IN  IF starts = {} THEN <<>>
        ELSE <<SubSeq(s, k, j)>> \o FindFrom(expr, s, j + 1)

findall(expr, s) == FindFrom(expr, s, 1)

\* v[2:-1]
Name(v) == SubSeq(v, 3, Len(v) - 1)

(***************************************************************************)
(* expand_evar                                                             *)
(***************************************************************************)
RECURSIVE EvarLoop(_, _, _)
EvarLoop(s, vs, env) ==
    IF vs = <<>> THEN s
    ELSE LET v == Head(vs)
             vname == Name(v)
         IN  EvarLoop(IF vname \in DOMAIN env THEN replace(s, v, env[vname]) ELSE s,
                      Tail(vs), env)

expand_evar(s, env, expr) == EvarLoop(s, findall(expr, s), env)

(***************************************************************************)
(* Python values                                                           *)
(***************************************************************************)
None == [NoneType |-> <<>>]

VStr(c) == [str |-> c]

VInt(i) == [int |-> i]

VBool(b) == [bool |-> b]

VList(items) == [list |-> items]

\* a dict: its entries [k, v] in insertion order, no key twice
VDict(entries) == [dict |-> entries]

\* type(value).__name__
type(value) == CHOOSE t \in DOMAIN value : TRUE

\* what the value holds: characters, a number, a truth value, items or entries
content(value) == value[type(value)]

BASIC_TYPES == {"int", "float", "bool", "str"}

basic_type(value) == type(value) \in BASIC_TYPES

stringy(value) == type(value) = "str"

\* bool(value)
Truthy(value) ==
    CASE type(value) = "NoneType" -> FALSE
      [] type(value) = "bool" -> content(value)
      [] type(value) = "int" -> content(value) # 0
      [] OTHER -> content(value) # <<>>

DictKeys(d) == {content(d)[i].k : i \in DOMAIN content(d)}

DictGet(d, k) == content(d)[CHOOSE i \in DOMAIN content(d) : content(d)[i].k = k].v

\* d[k] = v on the entries of a dict
RECURSIVE DictPut(_, _, _)
DictPut(entries, k, v) ==
    IF entries = <<>> THEN <<[k |-> k, v |-> v]>>
    ELSE IF Head(entries).k = k THEN <<[k |-> k, v |-> v]>> \o Tail(entries)
         ELSE <<Head(entries)>> \o DictPut(Tail(entries), k, v)

Digits == <<"0", "1", "2", "3", "4", "5", "6", "7", "8", "9">>

DigitOf(c) == (CHOOSE d \in 1..10 : Digits[d] = c) - 1

\* str(i) of an int i >= 0
RECURSIVE IntStr(_)
IntStr(i) == IF i < 10 THEN <<Digits[i + 1]>>
             ELSE IntStr(i \div 10) \o <<Digits[(i % 10) + 1]>>

\* int(c) of a decimal numeral
RECURSIVE IntOf(_)
IntOf(c) == IF c = <<>> THEN 0
            ELSE 10 * IntOf(SubSeq(c, 1, Len(c) - 1)) + DigitOf(c[Len(c)])

Chars(word) ==
    CASE word = "None" -> <<"N", "o", "n", "e">>
      [] word = "True" -> <<"T", "r", "u", "e">>
      [] word = "False" -> <<"F", "a", "l", "s", "e">>
      [] word = "null" -> <<"n", "u", "l", "l">>
      [] word = "true" -> <<"t", "r", "u", "e">>
      [] word = "false" -> <<"f", "a", "l", "s", "e">>
      [] word = "yaml" -> <<"y", "a", "m", "l">>
      [] word = "yml" -> <<"y", "m", "l">>
      [] word = "json" -> <<"j", "s", "o", "n">>
      [] word = "config" -> <<"c", "o", "n", "f", "i", "g">>

\* ", ".join(parts)
RECURSIVE Join(_)
Join(parts) ==
    IF parts = <<>> THEN <<>>
    ELSE IF Len(parts) = 1 THEN parts[1]
         ELSE parts[1] \o <<",", " ">> \o Join(Tail(parts))

\* str(value) and repr(value)
RECURSIVE PyStr(_)
RECURSIVE PyRepr(_)
PyStr(value) ==
    CASE type(value) = "str" -> content(value)
      [] type(value) = "int" -> IntStr(content(value))
      [] type(value) = "bool" -> IF content(value) THEN Chars("True") ELSE Chars("False")
      [] type(value) = "NoneType" -> Chars("None")
      [] type(value) = "list" ->
            <<"[">> \o Join([i \in DOMAIN content(value) |-> PyRepr(content(value)[i])]) \o <<"]">>
      [] type(value) = "dict" ->
            <<"{">> \o Join([i \in DOMAIN content(value) |->
                               PyRepr(content(value)[i].k) \o <<":", " ">> \o PyRepr(content(value)[i].v)])
                   \o <<"}">>

PyRepr(value) ==
    IF type(value) = "str"
    THEN LET q == IF "'" \in Range(content(value)) /\ "\"" \notin Range(content(value))
                  THEN "\"" ELSE "'"
         IN  <<q>> \o content(value) \o <<q>>
    ELSE PyStr(value)

(***************************************************************************)
(* yaml.load on the fragment.  The result is [ok, val]: ok is FALSE when   *)
(* the parser raises.  Outside the fragment (nested blocks, multi-line     *)
(* scalars, anchors, tags, comments, escapes, floats, signed or non-       *)
(* decimal integers) the model answers with a failure.                     *)
(***************************************************************************)
Ok(value) == [ok |-> TRUE, val |-> value]

Fail == [ok |-> FALSE, val |-> None]

Quotes == {"\"", "'"}

\* characters that cannot start a plain scalar
Indicators == {"%", "@", "&", "*", "!", "|", ">", "#", ",", "]", "}"}

FlowIndicators == {"[", "]", "{", "}", ","}

RECURSIVE LStrip(_)
LStrip(c) == IF c # <<>> /\ c[1] = " " THEN LStrip(Tail(c)) ELSE c

RECURSIVE RStrip(_)
RStrip(c) == IF c # <<>> /\ c[Len(c)] = " " THEN RStrip(SubSeq(c, 1, Len(c) - 1)) ELSE c

Strip(c) == LStrip(RStrip(c))

Indent(c) == Len(c) - Len(LStrip(c))

\* str.split(sep) for a one-character sep
RECURSIVE Split(_, _)
Split(c, sep) ==
    IF sep \notin Range(c) THEN <<c>>
    ELSE LET i == SetMin({j \in DOMAIN c : c[j] = sep})
         IN  <<SubSeq(c, 1, i - 1)>> \o Split(SubSeq(c, i + 1, Len(c)), sep)

\* the items of a flow collection: split at the commas outside quotes and brackets
RECURSIVE SplitFlow(_, _, _, _, _)
SplitFlow(c, i, start, depth, q) ==
    IF i > Len(c) THEN <<SubSeq(c, start, Len(c))>>
    ELSE IF q # "" THEN SplitFlow(c, i + 1, start, depth, IF c[i] = q THEN "" ELSE q)
    ELSE IF c[i] \in Quotes THEN SplitFlow(c, i + 1, start, depth, c[i])
    ELSE IF c[i] \in {"[", "{"} THEN SplitFlow(c, i + 1, start, depth + 1, q)
    ELSE IF c[i] \in {"]", "}"} THEN SplitFlow(c, i + 1, start, depth - 1, q)
    ELSE IF c[i] = "," /\ depth = 0
         THEN <<SubSeq(c, start, i - 1)>> \o SplitFlow(c, i + 1, i + 1, depth, q)
         ELSE SplitFlow(c, i + 1, start, depth, q)

\* the index of the ":" that ends the key of an entry, 0 when the text has no key
KeyEnd(c) ==
    IF c = <<>> THEN 0
    ELSE IF c[1] \in Quotes
    THEN LET close == {j \in 2..Len(c) : c[j] = c[1]}
             j == SetMin(close)
         IN  IF close # {} /\ j < Len(c) /\ c[j + 1] = ":"
                /\ (j + 1 = Len(c) \/ c[j + 2] = " ")
             THEN j + 1 ELSE 0
    ELSE IF c[1] \in {"[", "{"} THEN 0
    ELSE LET ends == {i \in DOMAIN c : c[i] = ":" /\ (i = Len(c) \/ c[i + 1] = " ")}
         IN  IF ends = {} THEN 0 ELSE SetMin(ends)

YamlNull == {<<"~">>, <<"n", "u", "l", "l">>, <<"N", "u", "l", "l">>, <<"N", "U", "L", "L">>}

YamlTrue == {<<"t", "r", "u", "e">>, <<"T", "r", "u", "e">>, <<"T", "R", "U", "E">>,
             <<"y", "e", "s">>, <<"Y", "e", "s">>, <<"Y", "E", "S">>,
             <<"o", "n">>, <<"O", "n">>, <<"O", "N">>}

YamlFalse == {<<"f", "a", "l", "s", "e">>, <<"F", "a", "l", "s", "e">>,
              <<"F", "A", "L", "S", "E">>,
              <<"n", "o">>, <<"N", "o">>, <<"N", "O">>,
              <<"o", "f", "f">>, <<"O", "f", "f">>, <<"O", "F", "F">>}

IsDecimal(c) ==
    /\ c # <<>>
    /\ \A i \in DOMAIN c : c[i] \in Range(Digits)
    /\ (Len(c) = 1 \/ c[1] # "0")

\* the value of a plain scalar
Resolve(c) ==
    IF c \in YamlNull THEN None
    ELSE IF c \in YamlTrue THEN VBool(TRUE)
    ELSE IF c \in YamlFalse THEN VBool(FALSE)
    ELSE IF IsDecimal(c) THEN VInt(IntOf(c))
    ELSE VStr(c)

\* a scalar or a flow collection; flow: inside a flow collection
RECURSIVE ParseNode(_, _)
RECURSIVE ParseItems(_, _, _)
RECURSIVE ParseFlowEntries(_, _, _)
ParseNode(c, flow) ==
    IF c = <<>> THEN Ok(None)
    ELSE IF c[1] \in Quotes
    THEN LET close == {j \in 2..Len(c) : c[j] = c[1]}
         IN  IF close # {} /\ SetMin(close) = Len(c)
             THEN Ok(VStr(SubSeq(c, 2, Len(c) - 1))) ELSE Fail
    ELSE IF c[1] \in {"[", "{"}
    THEN LET inner == Strip(SubSeq(c, 2, Len(c) - 1))
             items == IF inner = <<>> THEN <<>> ELSE SplitFlow(inner, 1, 1, 0, "")
         IN  IF c[1] = "[" /\ c[Len(c)] = "]" THEN ParseItems(items, 1, <<>>)
             ELSE IF c[1] = "{" /\ c[Len(c)] = "}" THEN ParseFlowEntries(items, 1, <<>>)
             ELSE Fail
    ELSE IF c[1] \in Indicators THEN Fail
    ELSE IF Contains(c, <<":", " ">>) \/ c[Len(c)] = ":" THEN Fail
    ELSE IF Contains(c, <<" ", "#">>) THEN Fail
    ELSE IF flow /\ Range(c) \cap FlowIndicators # {} THEN Fail
    ELSE Ok(Resolve(c))

ParseItems(items, i, acc) ==
    IF i > Len(items) THEN Ok(VList(acc))
    ELSE LET item == ParseNode(Strip(items[i]), TRUE)
         IN  IF Strip(items[i]) = <<>> \/ ~item.ok THEN Fail
             ELSE ParseItems(items, i + 1, Append(acc, item.val))

ParseFlowEntries(items, i, acc) ==
    IF i > Len(items) THEN Ok(VDict(acc))
    ELSE LET c == Strip(items[i])
             e == KeyEnd(c)
             key == ParseNode(IF e = 0 THEN c ELSE RStrip(SubSeq(c, 1, e - 1)), TRUE)
             val == IF e = 0 THEN Ok(None)
                    ELSE ParseNode(Strip(SubSeq(c, e + 1, Len(c))), TRUE)
         IN  IF c = <<>> \/ ~key.ok \/ ~val.ok \/ type(key.val) \in {"list", "dict"}
             THEN Fail
             ELSE ParseFlowEntries(items, i + 1, DictPut(acc, key.val, val.val))

\* the entries "key: value" of a block mapping
RECURSIVE ParseBlock(_, _, _)
ParseBlock(ls, i, acc) ==
    IF i > Len(ls) THEN Ok(VDict(acc))
    ELSE LET c == Strip(ls[i])
             e == KeyEnd(c)
             key == ParseNode(RStrip(SubSeq(c, 1, e - 1)), FALSE)
             val == ParseNode(Strip(SubSeq(c, e + 1, Len(c))), FALSE)
         IN  IF ~key.ok \/ ~val.ok \/ type(key.val) \in {"list", "dict"} THEN Fail
             ELSE ParseBlock(ls, i + 1, DictPut(acc, key.val, val.val))

yaml_load(text) ==
    LET ls == SelectSeq(Split(text, NL), LAMBDA l : Strip(l) # <<>>)
    IN  IF ls = <<>> THEN Ok(None)
        ELSE IF \E i \in DOMAIN ls : Indent(ls[i]) # Indent(ls[1]) THEN Fail
        ELSE IF \A i \in DOMAIN ls : KeyEnd(Strip(ls[i])) > 0
             THEN ParseBlock(ls, 1, <<>>)
        ELSE IF Len(ls) = 1 THEN ParseNode(Strip(ls[1]), FALSE)
        ELSE Fail

(***************************************************************************)
(* Files.  A path is compared as it is written (no ".", "..", links); a    *)
(* relative path is taken from the working directory.                      *)
(***************************************************************************)
AbsPath(wd, name) ==
    IF name # <<>> /\ name[1] = "/" THEN name ELSE wd \o <<"/">> \o name

\* os.path.exists(name)
exists(fsys, wd, name) == name # <<>> /\ AbsPath(wd, name) \in DOMAIN fsys

\* open(name, 'r').read()
read(fsys, wd, name) == fsys[AbsPath(wd, name)]

\* os.path.split(name)[0]
DirName(name) ==
    LET slashes == {i \in DOMAIN name : name[i] = "/"}
    IN  IF slashes = {} THEN <<>>
        ELSE IF SetMax(slashes) = 1 THEN <<"/">>
        ELSE SubSeq(name, 1, SetMax(slashes) - 1)

(***************************************************************************)
(* expand_cvar.  The result is [ok, s].  The function has no guard against *)
(* a file that includes itself: the call for a file that is already being  *)
(* expanded repeats the same call without end, and Python raises           *)
(* RecursionError; stack holds the files being expanded.                   *)
(***************************************************************************)
RECURSIVE expand_cvar(_, _, _, _, _)
RECURSIVE CvarLoop(_, _, _, _, _, _)
CvarLoop(s, vs, expr, fsys, wd, stack) ==
    IF vs = <<>> THEN [ok |-> TRUE, s |-> s]
    ELSE LET v == Head(vs)
             name == Name(v)
             sub == expand_cvar(read(fsys, wd, name), expr, fsys, wd,
                                stack \cup {AbsPath(wd, name)})
         IN  IF exists(fsys, wd, name)
             THEN IF AbsPath(wd, name) \in stack \/ ~sub.ok
                  THEN [ok |-> FALSE, s |-> s]
                  ELSE CvarLoop(replace(s, v, sub.s), Tail(vs), expr, fsys, wd, stack)
             ELSE CvarLoop(s, Tail(vs), expr, fsys, wd, stack)

expand_cvar(s, expr, fsys, wd, stack) ==
    CvarLoop(s, findall(expr, s), expr, fsys, wd, stack)

(***************************************************************************)
(* expand_lvars.  The result is [ok, s]: "vname in scope" and              *)
(* "scope[vname]" raise TypeError when the scope is no dict.               *)
(***************************************************************************)
\* expand_lvars with the return inside the loop: only the first expression
\* of a pass is replaced
LvarLoop_first(s, vs, scope) ==
    IF vs = <<>> THEN s
    ELSE IF VStr(Name(Head(vs))) \in DictKeys(scope)
         THEN replace(s, Head(vs), PyStr(DictGet(scope, VStr(Name(Head(vs))))))
         ELSE s

RECURSIVE LvarLoop(_, _, _)
LvarLoop(s, vs, scope) ==
    IF vs = <<>> THEN s
    ELSE LET v == Head(vs)
             vname == VStr(Name(v))
         IN  LvarLoop(IF vname \in DictKeys(scope)
                      THEN replace(s, v, PyStr(DictGet(scope, vname)))
                      ELSE s,
                      Tail(vs), scope)

expand_lvars(s, scope, expr) ==
    LET vs == findall(expr, s)
        raises ==
            CASE type(scope) = "str" -> \E i \in DOMAIN vs : Name(vs[i]) = <<>> \/ Contains(content(scope), Name(vs[i]))
              [] type(scope) = "list" -> \E i \in DOMAIN vs : VStr(Name(vs[i])) \in Range(content(scope))
              [] OTHER -> vs # <<>>
    IN  IF type(scope) = "dict" THEN [ok |-> TRUE, s |-> LvarLoop(s, vs, scope)]
        ELSE [ok |-> ~raises, s |-> s]

\* lookup(): the value of an expression in a scope, None when it has none;
\* the result is [ok, val], ok FALSE when the function raises
lookup(string, scope) ==
    LET name == VStr(Name(string))
    IN  IF name \in DictKeys(scope)
        THEN [ok |-> basic_type(DictGet(scope, name)), val |-> DictGet(scope, name)]
        ELSE Ok(None)

(***************************************************************************)
(* merge.  The dictionaries are functions here.  Two keys with the same    *)
(* str() give one key of the result; which of the two values it gets       *)
(* depends on the order in which the set of keys is iterated, which is not *)
(* determined: merge is the set of the results that can come out.          *)
(***************************************************************************)
get(d, key) == IF key \in DOMAIN d THEN d[key] ELSE None

\* choose as the docstring of merge words it: a value that evaluates to true
\* takes priority
choose_truthy(key, dict1, dict2) ==
    IF Truthy(get(dict1, key)) THEN get(dict1, key) ELSE get(dict2, key)

choose(key, dict1, dict2) ==
    LET v1 == get(dict1, key)
        v2 == get(dict2, key)
    IN  IF v1 # None THEN v1 ELSE v2

merge(dict_1, dict_2) ==
    LET keys == DOMAIN dict_2 \cup DOMAIN dict_1
        out == {VStr(PyStr(key)) : key \in keys}
        values(s) == {choose(key, dict_1, dict_2) : key \in {k \in keys : VStr(PyStr(k)) = s}}
        clash == {s \in out : Cardinality(values(s)) > 1}
        picks == {c \in [clash -> UNION {values(s) : s \in clash}] :
                     \A s \in clash : c[s] \in values(s)}
    IN  {[s \in out |-> IF s \in clash THEN c[s] ELSE CHOOSE x \in values(s) : TRUE] :
            c \in picks}

\* dict.items() of a parsed mapping, as a function
Items(d) == [key \in DictKeys(d) |-> DictGet(d, key)]

(***************************************************************************)
(* config() and load()                                                     *)
(***************************************************************************)
JSON == {Chars("json")}

YAML == {Chars("yaml"), Chars("yml")}

\* filename.split('.')[-1]
get_format(filename) ==
    LET parts == Split(filename, ".")
    IN  parts[Len(parts)]

\* key.lstrip("--")
RECURSIVE LStripDash(_)
LStripDash(key) == IF key # <<>> /\ key[1] = "-" THEN LStripDash(Tail(key)) ELSE key

\* parse_cmd_args(args, format="yaml") after the keys are stripped; [ok, val]
parse_cmd_args(args) ==
    LET parsed == [k \in DOMAIN args |->
                     IF Truthy(args[k]) /\ stringy(args[k])
                     THEN yaml_load(content(args[k])) ELSE Ok(args[k])]
    IN  [ok |-> \A k \in DOMAIN args : parsed[k].ok,
         val |-> [key \in {VStr(LStripDash(k)) : k \in DOMAIN args} |->
                    parsed[CHOOSE k \in DOMAIN args : VStr(LStripDash(k)) = key].val]]

\* a loop of one pass more
LVAR_PASSES_more == 10 + 1

\* range(10) in load()
LVAR_PASSES == 10

NoSnap == [read |-> <<>>, cvar |-> <<>>, evar |-> <<>>, lvars |-> <<>>]

Raise(e) == pc' = "raised" /\ error' = e

\* config(), lines 110-125, up to the call of load() or the return of cargs
Config ==
    /\ pc = "config"
    /\ LET parsed == parse_cmd_args(argv)
           key == VStr(Chars("config"))
       IN  IF ~parsed.ok
           THEN Raise("YAMLError") /\ UNCHANGED <<cargs, fname, result>>
           ELSE /\ cargs' = parsed.val
                /\ error' = error
                /\ IF key \in DOMAIN parsed.val /\ Truthy(parsed.val[key])
                   THEN pc' = "load" /\ fname' = parsed.val[key] /\ result' = result
                   ELSE pc' = "returned" /\ result' = parsed.val /\ fname' = fname
    /\ UNCHANGED <<fs, cwd, environ, argv, confstr, parent, n, cfile, path, snap>>

\* load(), lines 185-197: the format, the directory, the text of the file.
\* json.loads is not modelled: the step is not taken for a json file.
Load_Read ==
    /\ pc = "load"
    /\ type(fname) = "str" => get_format(content(fname)) \notin JSON
    /\ IF type(fname) # "str"
       THEN Raise("AttributeError") /\ UNCHANGED <<confstr, path, snap>>
       ELSE IF get_format(content(fname)) \notin JSON \cup YAML
       THEN Raise("ConfigError") /\ UNCHANGED <<confstr, path, snap>>
       ELSE /\ path' = IF Strip(DirName(content(fname))) = <<>> THEN cwd ELSE DirName(content(fname))
            /\ IF exists(fs, cwd, content(fname))
               THEN /\ confstr' = read(fs, cwd, content(fname))
                    /\ snap' = [snap EXCEPT !.read = read(fs, cwd, content(fname))]
                    /\ pc' = "expand_cvar"
                    /\ error' = error
               ELSE Raise("IOError") /\ UNCHANGED <<confstr, snap>>
    /\ UNCHANGED <<fs, cwd, environ, argv, cargs, fname, parent, n, cfile, result>>

\* load(), line 200
Load_ExpandCvar ==
    /\ pc = "expand_cvar"
    /\ LET r == expand_cvar(confstr, CVAR, fs, cwd, {})
       IN  IF r.ok
           THEN /\ confstr' = r.s
                /\ snap' = [snap EXCEPT !.cvar = r.s]
                /\ pc' = "expand_evar"
                /\ error' = error
           ELSE Raise("RecursionError") /\ UNCHANGED <<confstr, snap>>
    /\ UNCHANGED <<fs, cwd, environ, argv, cargs, fname, parent, n, cfile, result, path>>

\* load(), line 203
Load_ExpandEvar ==
    /\ pc = "expand_evar"
    /\ confstr' = expand_evar(confstr, environ, EVAR)
    /\ snap' = [snap EXCEPT !.evar = expand_evar(confstr, environ, EVAR)]
    /\ pc' = "parse"
    /\ UNCHANGED <<fs, cwd, environ, argv, cargs, fname, parent, n, cfile, result,
                   error, path>>

\* load(), lines 206-210
Load_Parse ==
    /\ pc = "parse"
    /\ LET r == yaml_load(confstr)
       IN  IF r.ok
           THEN /\ parent' = r.val
                /\ n' = 0
                /\ snap' = [snap EXCEPT !.lvars = <<confstr>>]
                /\ pc' = "expand_lvars"
                /\ error' = error
           ELSE Raise("YAMLError") /\ UNCHANGED <<parent, n, snap>>
    /\ UNCHANGED <<fs, cwd, environ, argv, cargs, fname, confstr, cfile, result, path>>

\* load(), lines 218-219: one pass of the loop
Load_ExpandLvars ==
    /\ pc = "expand_lvars"
    /\ n < LVAR_PASSES
    /\ LET r == expand_lvars(confstr, parent, LVAR)
       IN  IF r.ok
           THEN /\ confstr' = r.s
                /\ n' = n + 1
                /\ snap' = [snap EXCEPT !.lvars = Append(@, r.s)]
                /\ pc' = pc
                /\ error' = error
           ELSE Raise("TypeError") /\ UNCHANGED <<confstr, n, snap>>
    /\ UNCHANGED <<fs, cwd, environ, argv, cargs, fname, parent, cfile, result, path>>

\* load(), lines 223-229
Load_Return ==
    /\ pc = "expand_lvars"
    /\ n >= LVAR_PASSES
    /\ LET r == yaml_load(confstr)
       IN  IF r.ok
           THEN cfile' = r.val /\ pc' = "merge" /\ error' = error
           ELSE Raise("YAMLError") /\ cfile' = cfile
    /\ UNCHANGED <<fs, cwd, environ, argv, cargs, fname, confstr, parent, n, result,
                   path, snap>>

\* config(), lines 122-123
Config_Merge ==
    /\ pc = "merge"
    /\ IF type(cfile) = "dict"
       THEN /\ \E r \in merge(cargs, Items(cfile)) : result' = r
            /\ pc' = "returned"
            /\ error' = error
       ELSE /\ Raise(IF type(cfile) \in {"str", "list"} THEN "AttributeError" ELSE "TypeError")
            /\ result' = result
    /\ UNCHANGED <<fs, cwd, environ, argv, cargs, fname, confstr, parent, n, cfile,
                   path, snap>>

(***************************************************************************)
(* The inputs: texts, files, environments and command lines                *)
(***************************************************************************)
MaxLines == 2

MaxChain == 11

MaxTok == 3

Ev(name) == <<"$", "(">> \o name \o <<")">>

Lv(name) == <<"%", "(">> \o name \o <<")">>

Cv(name) == <<"%", "[">> \o name \o <<"]">>

Q(c) == <<"\"">> \o c \o <<"\"">>

Entry(key, value) == key \o <<":", " ">> \o value

\* the lines, each ended by a newline
RECURSIVE Text(_)
Text(ls) == IF ls = <<>> THEN <<>> ELSE Head(ls) \o <<NL>> \o Text(Tail(ls))

\* the sequences of 1..k different elements of S
Picks(S, k) ==
    UNION {{q \in [1..m -> S] : \A i, j \in 1..m : i # j => q[i] # q[j]} : m \in 1..k}

Dir == <<"/", "d">>

Other == <<"/", "e">>

FName == Dir \o <<"/", "f", ".">> \o Chars("yaml")

\* documents about local variables
LocalLines ==
    { Entry(<<"b">>, <<"/", "d">>),
      Entry(<<"p">>, Q(Lv(<<"b">>) \o <<"/", "l">>)),
      Entry(<<"q">>, Q(Lv(<<"p">>))),
      Entry(<<"r">>, Q(Lv(<<"u">>))),
      Entry(<<"s">>, <<"{", "h", ":", " ", "x", "}">>),
      Entry(<<"t">>, Q(Lv(<<"s">>))),
      Entry(<<"w">>, Q(Lv(<<"h">>))),
      Entry(<<"a">>, Q(<<"x">> \o Lv(<<"a">>))),
      Entry(<<"i">>, <<"1">>),
      Entry(<<"j">>, Q(Lv(<<"i">>) \o Lv(<<"b">>))),
      Entry(<<"m">>, Q(Lv(<<"k">>))),
      Entry(<<"k">>, Q(Lv(<<"m">>))) }

LocalDocs == {Text(q) : q \in Picks(LocalLines, MaxLines)}

\* a: v, b: "%(a)", c: "%(b)", ...: a chain of len references
ChainKeys == <<"a", "b", "c", "d", "e", "f", "g", "h", "i", "j", "k", "l", "m", "n">>

ChainDoc(len) ==
    Text([i \in 1..(len + 1) |->
            IF i = 1 THEN Entry(<<ChainKeys[1]>>, <<"v">>)
            ELSE Entry(<<ChainKeys[i]>>, Q(Lv(<<ChainKeys[i - 1]>>)))])

\* the same entries, last first
ChainDocRev(len) ==
    Text([i \in 1..(len + 1) |->
            IF i = len + 1 THEN Entry(<<ChainKeys[1]>>, <<"v">>)
            ELSE Entry(<<ChainKeys[len + 2 - i]>>, Q(Lv(<<ChainKeys[len + 1 - i]>>)))])

ChainDocs == {ChainDoc(len) : len \in 1..MaxChain} \cup {ChainDocRev(len) : len \in 1..MaxChain}

\* a document that is no mapping
ScalarDocs == {Q(Lv(<<"x">>)), <<"x">>, <<>>}

NoEnv == [name \in {} |-> <<>>]

NoFile == [name \in {} |-> <<>>]

OneFile(name, text) == [f \in {name} |-> text]

\* documents about includes and environment variables
IncludeLines ==
    { Entry(<<"x">>, Q(Cv(<<"b">>))),
      Entry(<<"y">>, Q(Cv(<<"b">>) \o <<" ">> \o Cv(<<"c">>))),
      Entry(<<"z">>, Q(Cv(<<"m">>))),
      Entry(<<"w">>, Q(Cv(Ev(<<"D">>) \o <<"/", "b">>))),
      Cv(<<"c">>),
      Entry(<<"v">>, Q(Ev(<<"E">>))) }

IncludeDocs == {Text(q) : q \in Picks(IncludeLines, MaxLines)}

File(dir, name) == dir \o <<"/">> \o name

Files(names, text) == [f \in names |-> text[f]]

\* the other files, the working directory and the environment
World(files, wd, env) == [files |-> files, cwd |-> wd, env |-> env]

EnvOf(D, E) ==
    [name \in {<<"D">> : x \in {D} \ {<<>>}} \cup {<<"E">> : x \in {E} \ {<<>>}} |->
        IF name = <<"D">> THEN D ELSE E]

B == File(Dir, <<"b">>)

C == File(Dir, <<"c">>)

KLine == Entry(<<"k">>, <<"1">>)

Worlds ==
    { World(NoFile, Dir, NoEnv),
      World(OneFile(B, <<"h">>), Dir, NoEnv),
      World(OneFile(B, <<"h">>), Other, NoEnv),
      World(OneFile(File(Other, <<"b">>), <<"h">>), Other, NoEnv),
      World([f \in {B, File(Other, <<"b">>)} |-> IF f = B THEN <<"h">> ELSE <<"i">>],
            Other, NoEnv),
      World([f \in {B, C} |-> IF f = B THEN <<"g">> \o Cv(<<"c">>) ELSE KLine], Dir, NoEnv),
      World(OneFile(B, <<"g">> \o Cv(<<"c">>)), Dir, NoEnv),
      World(OneFile(B, Cv(<<"b">>)), Dir, NoEnv),
      World(OneFile(B, Ev(<<"E">>)), Dir, EnvOf(<<>>, <<"e">>)),
      World(OneFile(B, <<"h">>), Other, EnvOf(Dir, <<>>)),
      World([f \in {B, C} |-> IF f = B THEN <<"h">> ELSE KLine], Dir, EnvOf(Dir, Ev(<<"D">>))),
      World(OneFile(C, KLine), Dir, EnvOf(Other, <<"e">>)) }

\* documents for the merge with the command line
ConfigLines ==
    { Entry(<<"b">>, <<"/", "d">>),
      Entry(<<"o">>, <<"f">>),
      Entry(<<"p">>, Q(Lv(<<"b">>) \o Lv(<<"o">>))),
      Entry(<<"1">>, <<"n">>) }

ConfigDocs == {Text(q) : q \in Picks(ConfigLines, MaxLines)}

\* docopt's result for the options --config, --o and --b
Option(name) == <<"-", "-">> \o name

Argv(config, o, b) ==
    [k \in {Option(Chars("config")), Option(<<"o">>), Option(<<"b">>)} |->
        IF k = Option(<<"o">>) THEN o ELSE IF k = Option(<<"b">>) THEN b ELSE config]

OValues ==
    { None, VStr(<<"c">>), VStr(<<"x">> \o Lv(<<"b">>)), VStr(Chars("null")),
      VStr(<<"[", "1", ",", " ", "2", "]">>), VStr(Lv(<<"b">>)) }

BValues == {None, VStr(<<"/", "c">>)}

ConfigValues ==
    { None, VStr(<<>>), VStr(<<"5">>), VStr(<<"f", ".">> \o Chars("yaml")),
      VStr(Dir \o <<"/", "f", ".", "t", "x", "t">>),
      VStr(Dir \o <<"/", "g", ".">> \o Chars("yml")) }

InitCall ==
    /\ pc = "config"
    /\ cargs = NoEnv
    /\ fname = None
    /\ confstr = <<>>
    /\ parent = None
    /\ n = 0
    /\ cfile = None
    /\ result = NoEnv
    /\ error = ""
    /\ path = <<>>
    /\ snap = NoSnap

\* a file of local variables
InitLocal ==
    /\ \E doc \in LocalDocs \cup ChainDocs \cup ScalarDocs : fs = OneFile(FName, doc)
    /\ cwd = Dir
    /\ environ = NoEnv
    /\ argv = Argv(VStr(FName), None, None)
    /\ InitCall

\* a file of includes, in a world of other files
InitInclude ==
    /\ \E doc \in IncludeDocs, w \in Worlds :
          /\ fs = [f \in DOMAIN w.files \cup {FName} |->
                     IF f = FName THEN doc ELSE w.files[f]]
          /\ cwd = w.cwd
          /\ environ = w.env
    /\ argv = Argv(VStr(FName), None, None)
    /\ InitCall

\* a command line over a file
InitConfig ==
    /\ \/ \E doc \in ConfigDocs, o \in OValues, b \in BValues :
             fs = OneFile(FName, doc) /\ argv = Argv(VStr(FName), o, b)
       \/ \E config \in ConfigValues, o \in OValues, b \in BValues :
             fs = OneFile(FName, Entry(<<"o">>, <<"f">>)) /\ argv = Argv(config, o, b)
    /\ cwd \in {Dir, Other}
    /\ environ = NoEnv
    /\ InitCall

Init == InitLocal \/ InitInclude \/ InitConfig

Next ==
    \/ Config
    \/ Load_Read
    \/ Load_ExpandCvar
    \/ Load_ExpandEvar
    \/ Load_Parse
    \/ Load_ExpandLvars
    \/ Load_Return
    \/ Config_Merge

Spec == Init /\ [][Next]_vars

(***************************************************************************)
(* expand_evar alone, on the texts of up to MaxTok tokens                  *)
(***************************************************************************)
EvarTokens == {Ev(<<"A">>), Ev(<<"B">>), Ev(<<"U">>), <<"x">>}

RECURSIVE Concat(_)
Concat(q) == IF q = <<>> THEN <<>> ELSE Head(q) \o Concat(Tail(q))

EvarTexts == {Concat(q) : q \in UNION {[1..m -> EvarTokens] : m \in 1..MaxTok}}

EvarValues == {<<"a">>, Ev(<<"A">>), Ev(<<"B">>), <<>>}

EvarEnvs == UNION {[names -> EvarValues] : names \in SUBSET {<<"A">>, <<"B">>}}

InitEvar ==
    /\ pc = "expand_evar"
    /\ confstr \in EvarTexts
    /\ environ \in EvarEnvs
    /\ snap = [NoSnap EXCEPT !.cvar = confstr]
    /\ fs = NoFile
    /\ cwd = Dir
    /\ argv = NoEnv
    /\ cargs = NoEnv
    /\ fname = None
    /\ parent = None
    /\ n = 0
    /\ cfile = None
    /\ result = NoEnv
    /\ error = ""
    /\ path = <<>>

SpecEvar == InitEvar /\ [][Load_ExpandEvar]_vars

(***************************************************************************)
(* merge alone, on small dictionaries                                      *)
(***************************************************************************)
MergeKeys == <<VStr(<<"o">>), VStr(<<"1">>), VInt(1)>>

MergeValues1 == {None, VStr(<<"c">>), VStr(<<>>), VInt(0)}

MergeValues2 == {None, VStr(<<"f">>), VBool(FALSE)}

\* the dict with the entries of the function f, in the order of keys
DictOf(keys, f) ==
    LET sel == SelectSeq(keys, LAMBDA k : k \in DOMAIN f)
    IN  VDict([i \in DOMAIN sel |-> [k |-> sel[i], v |-> f[sel[i]]]])

InitMerge ==
    /\ pc = "merge"
    /\ cargs \in UNION {[K -> MergeValues1] : K \in SUBSET Range(MergeKeys)}
    /\ \E f \in UNION {[K -> MergeValues2] : K \in SUBSET Range(MergeKeys)} :
          cfile = DictOf(MergeKeys, f)
    /\ fs = NoFile
    /\ cwd = Dir
    /\ environ = NoEnv
    /\ argv = NoEnv
    /\ fname = None
    /\ confstr = <<>>
    /\ parent = None
    /\ n = 0
    /\ result = NoEnv
    /\ error = ""
    /\ path = <<>>
    /\ snap = NoSnap

\* merge on these dictionaries, and in config() on a command line over a file
SpecMerge == (InitMerge \/ InitConfig) /\ [][Next]_vars

(***************************************************************************)
(* What the claims speak of                                                *)
(***************************************************************************)
\* an include expression as the specification reads it: up to the first "]"
Include == [open |-> <<"%", "[">>, close |-> "]", greedy |-> FALSE]

\* the include expressions of a text
Includes(text) == Range(findall(Include, text))

\* the local-variable expressions of a text
Locals(text) == Range(findall([open |-> <<"%", "(">>, close |-> ")", greedy |-> FALSE], text))

\* the inside of an expression
Inside(v) == SubSeq(v, 3, Len(v) - 1)

\* one simultaneous substitution: every $(name) of s with name in env becomes
\* env[name], and what is put in is not read again
RECURSIVE Substituted(_, _, _)
Substituted(s, i, env) ==
    LET starts == {k \in i..(Len(s) - 2) :
                      /\ s[k] = "$" /\ s[k + 1] = "("
                      /\ \E j \in (k + 2)..Len(s) :
                            s[j] = ")" /\ \A m \in (k + 2)..j : s[m] # NL}
        k == SetMin(starts)
        j == SetMin({m \in (k + 2)..Len(s) : s[m] = ")"})
        name == SubSeq(s, k + 2, j - 1)
    IN  IF starts = {} THEN SubSeq(s, i, Len(s))
        ELSE SubSeq(s, i, k - 1)
                \o (IF name \in DOMAIN env THEN env[name] ELSE SubSeq(s, k, j))
                \o Substituted(s, j + 1, env)

\* C8: expand_evar(text, env) is one simultaneous substitution over the text:
\* every $(name) with name in env is replaced by env[name], every other one is
\* left, and text that a value brought in is never itself replaced
C8_EvarIsOneSubstitution ==
    pc = "parse" => confstr = Substituted(snap.cvar, 1, environ)

\* C4: after include expansion, for an acyclic include graph, the text holds no
\* include expression naming a file that exists (several on one line included)
C4_NoIncludeOfExistingFileLeft ==
    pc = "expand_evar" => \A v \in Includes(confstr) : ~exists(fs, cwd, Inside(v))

\* C5: a load of a text that holds, itself or through an include, a %[name]
\* naming no file of the search paths fails: load returns no document
C5_MissingIncludeFails ==
    pc = "merge" =>
        \A v \in Includes(snap.cvar) :
            exists(fs, cwd, Inside(v)) \/ exists(fs, path, Inside(v))

\* C6: a %(name) whose name is a top-level key holding a mapping or a sequence
\* makes the load fail: no pass of the expansion goes through, and the dump
\* of the container is never put into the text
C6_ContainerReferenceFails ==
    (pc = "expand_lvars" /\ n >= 1 /\ type(parent) = "dict") =>
        \A v \in Locals(snap.lvars[1]) :
            VStr(Inside(v)) \in DictKeys(parent) =>
                type(DictGet(parent, VStr(Inside(v)))) \notin {"list", "dict"}

\* C7: the phases run in the order environment variables, includes, local
\* variables: the text that is parsed is the include expansion of the
\* environment expansion of the text of the file
C7_EnvironmentBeforeIncludes ==
    pc = "parse" =>
        LET r == expand_cvar(expand_evar(snap.read, environ, EVAR), CVAR, fs, cwd, {})
        IN  r.ok /\ confstr = r.s

\* C9: an include is looked up in the directory of the loaded file and then in
\* the working directory: an include expression of the file that names a file
\* of the directory of the loaded file is gone after include expansion
C9_IncludeFoundInFileDirectory ==
    pc = "expand_evar" =>
        \A v \in Range(findall(CVAR, snap.read)) :
            exists(fs, path, Inside(v)) => ~Contains(confstr, v)

\* a string value without a local-variable expression
Plain(value) == type(value) = "str" /\ Locals(content(value)) = {}

\* C3: the mapping config() returns has had local-variable expansion run on it
\* with itself as scope: no string value of it holds a %(name) whose name is a
\* key of the mapping holding a plain string (from the command line or not)
C3_ResultExpandedAgainstItself ==
    pc = "returned" =>
        \A key \in DOMAIN result :
            type(result[key]) = "str" =>
                \A v \in Locals(content(result[key])) :
                    ~(VStr(Inside(v)) \in DOMAIN result /\ Plain(result[VStr(Inside(v))]))

\* the loop of the specification: stop at the first pass that changes nothing,
\* or after k passes
RECURSIVE FixLoop(_, _, _)
FixLoop(s, scope, k) ==
    IF k = 0 THEN s
    ELSE LET r == expand_lvars(s, scope, LVAR)
         IN  IF ~r.ok \/ r.s = s THEN s ELSE FixLoop(r.s, scope, k - 1)

\* C10: the local-variable expansion of load makes at most 10 passes, cyclic
\* references or not; a pass that leaves the text unchanged is followed only
\* by passes that leave it unchanged; and the text after the 10 passes is the
\* text of the loop that stops at the first unchanged pass or at pass 10
C10_BoundedFixedPoint ==
    /\ n <= 10
    /\ Len(snap.lvars) <= 10 + 1
    /\ \A i \in 2..(Len(snap.lvars) - 1) :
          snap.lvars[i] = snap.lvars[i - 1] => snap.lvars[i + 1] = snap.lvars[i]
    /\ pc \in {"merge", "returned"} /\ snap.lvars # <<>> =>
          /\ Len(snap.lvars) = 10 + 1
          /\ confstr = snap.lvars[10 + 1]
          /\ confstr = FixLoop(snap.lvars[1], parent, 10)

\* load has returned after two passes that changed the text and a pass that
\* did not
C10_Witness ==
    /\ pc = "merge"
    /\ Len(snap.lvars) = 10 + 1
    /\ snap.lvars[2] # snap.lvars[1]
    /\ snap.lvars[3] # snap.lvars[2]
    /\ snap.lvars[4] = snap.lvars[3]
    /\ confstr = snap.lvars[3]

\* the top-level keys that the value of key k refers to
Refs(scope, k) ==
    {j \in DictKeys(scope) :
        type(j) = "str" /\ Contains(PyStr(DictGet(scope, k)), Lv(content(j)))}

\* the length of the longest chain of references that starts at key k, cut
\* at fuel
RECURSIVE Depth(_, _, _)
Depth(scope, k, fuel) ==
    IF fuel = 0 \/ Refs(scope, k) = {} THEN 0
    ELSE 1 + SetMax({Depth(scope, j, fuel - 1) : j \in Refs(scope, k)})

DocDepth(scope) ==
    SetMax({0} \cup {Depth(scope, k, Cardinality(DictKeys(scope))) : k \in DictKeys(scope)})

\* no key refers to itself, directly or through other keys
Acyclic(scope) == DocDepth(scope) < Cardinality(DictKeys(scope))

\* the name of the expression v is a top-level key that holds a scalar
Scalar(scope, v) ==
    VStr(Inside(v)) \in DictKeys(scope) /\ basic_type(DictGet(scope, VStr(Inside(v))))

\* every %(name) of s, from position i on, whose name is a top-level key
\* holding a scalar replaced by the string form of the value, at once
RECURSIVE Replaced(_, _, _)
Replaced(s, i, scope) ==
    LET starts == {k \in i..(Len(s) - 2) :
                      /\ s[k] = "%" /\ s[k + 1] = "("
                      /\ \E j \in (k + 2)..Len(s) :
                            s[j] = ")" /\ \A m \in (k + 2)..j : s[m] # NL}
        k == SetMin(starts)
        j == SetMin({m \in (k + 2)..Len(s) : s[m] = ")"})
        v == SubSeq(s, k, j)
    IN  IF starts = {} THEN SubSeq(s, i, Len(s))
        ELSE SubSeq(s, i, k - 1)
                \o (IF Scalar(scope, v) THEN PyStr(DictGet(scope, VStr(Inside(v)))) ELSE v)
                \o Replaced(s, j + 1, scope)

\* Replaced again and again, until nothing changes or k times
RECURSIVE Resolved(_, _, _)
Resolved(s, scope, k) ==
    IF k = 0 \/ Replaced(s, 1, scope) = s THEN s
    ELSE Resolved(Replaced(s, 1, scope), scope, k - 1)

\* the local-variable phase of load is over, on a document that is a mapping
AfterLocals == Len(snap.lvars) = LVAR_PASSES + 1 /\ type(parent) = "dict"

\* what C2 says of the text after the phase: no %(name) of a scalar top-level
\* key is left; every other %(name) of the parsed text is still there (a name
\* that is a key of a nested container only is no top-level key); and where
\* all references are to scalars, the text is the parsed text with the
\* references replaced by the string forms of the values
LocalsResolved ==
    /\ error # "TypeError"
    /\ \A v \in Locals(confstr) : ~Scalar(parent, v)
    /\ \A v \in Locals(snap.lvars[1]) :
          VStr(Inside(v)) \notin DictKeys(parent) => v \in Locals(confstr)
    /\ (\A v \in Locals(snap.lvars[1]) :
           VStr(Inside(v)) \in DictKeys(parent) => Scalar(parent, v))
          => confstr = Resolved(snap.lvars[1], parent, Cardinality(DictKeys(parent)) + 1)

\* C2 as stated: for every document without cyclic local-variable references
C2_LocalsResolvedAtAnyDepth ==
    AfterLocals /\ Acyclic(parent) => LocalsResolved

\* C2: for a document without cyclic local-variable references whose chains
\* of references are at most 10 long, after the local-variable phase of load
\* every %(name) of a top-level key holding a scalar is replaced by the string
\* form of the value, every %(name) of no top-level key is left as it is,
\* without error, and keys of nested containers resolve nothing
C2_LocalsResolvedUpToDepth10 ==
    AfterLocals /\ Acyclic(parent) /\ DocDepth(parent) <= 10 => LocalsResolved

\* {b: /d, p: "%(b)/l"} has become p: "/d/l"
C2_Witness ==
    /\ AfterLocals
    /\ snap.lvars[1] = Text(<<Entry(<<"b">>, <<"/", "d">>),
                             Entry(<<"p">>, Q(Lv(<<"b">>) \o <<"/", "l">>))>>)
    /\ confstr = Text(<<Entry(<<"b">>, <<"/", "d">>),
                        Entry(<<"p">>, Q(<<"/", "d", "/", "l">>))>>)
    /\ pc = "merge"
    /\ DictGet(cfile, VStr(<<"p">>)) = VStr(<<"/", "d", "/", "l">>)

\* the keys of the two mappings that merge() is called with in config()
MergedKeys == DOMAIN cargs \cup DictKeys(cfile)

\* the first mapping's value when it has one that is not null, otherwise the
\* second mapping's, null when it has none
Preferred(key) ==
    IF key \in DOMAIN cargs /\ cargs[key] # None THEN cargs[key]
    ELSE IF key \in DictKeys(cfile) THEN DictGet(cfile, key)
    ELSE None

\* config() has returned the merge of the command line and the file
Merged == pc = "returned" /\ type(cfile) = "dict"

====
